---- MODULE Spec2Model ----
(***************************************************************************)
(* Survey form API (Go, gin + SQLite): the survey / response handlers of   *)
(* main.go as a state machine.                                             *)
(*                                                                         *)
(* Every HTTP request runs in its own goroutine against the shared         *)
(* database handle `db`, so a handler is a sequence of atomic store        *)
(* statements that interleaves with the statements of the other requests   *)
(* and with the advancing wall clock.  Work a handler does between two     *)
(* store statements (binding the JSON body, validating lengths, computing  *)
(* time.Since) is local and is folded into the adjacent step.              *)
(*                                                                         *)
(* Strings (title, description, user identifier) are represented by their  *)
(* byte length, the only thing the handlers inspect; a response payload    *)
(* (json.RawMessage) is an opaque token, NoData standing for an absent     *)
(* (nil) one.  Time is counted in ticks, Second ticks to the second.       *)
(*                                                                         *)
(* A store call can fail (the database file is locked by another           *)
(* connection, the disk is full): the ...Fails actions are the handlers'    *)
(* steps under such a failure.  seed.go is a second program on the same    *)
(* database file; its statements interleave with the server's.             *)
(***************************************************************************)
EXTENDS Integers, Sequences, FiniteSets, TLC

\* ------------------------------------------------------------------ bounds
MaxSurveys   == 2     \* rows the surveys table may grow to
MaxResponses == 1     \* rows the survey_responses table may grow to
NumData      == 2     \* distinct response payloads
Second       == 2     \* clock ticks per second

\* ------------------------------------------------------- program constants
MinTitleLen == 3
MaxTitleLen == 255
MaxDescLen  == 1000
MinUserLen  == 3
MaxUserLen  == 100
WindowHours == 24

Hour       == 3600 * Second
EditWindow == WindowHours * Hour          \* 24*time.Hour

\* Two requests in flight at a time: the least that lets handlers interleave.
Procs  == {"p", "q"}
NoData == 0
Data   == 1..NumData
\* A request body that is not well-formed JSON.
Malformed == -1

\* Input lengths tried by the requests: the boundaries of every check.
TitleLens == {0, MinTitleLen - 1, MinTitleLen, MaxTitleLen, MaxTitleLen + 1}
DescLens  == {0, 1, MaxDescLen, MaxDescLen + 1}
UserLens  == {0, MinUserLen - 1, MinUserLen, MaxUserLen, MaxUserLen + 1}

\* Instants the wall clock visits: around the start, and around one edit
\* window later.
Instants == {0, 1, EditWindow - Second, EditWindow, EditWindow + 1}

\* now: the wall clock; surveys, survey_responses: the two tables, rows in
\* rowid order; sqlite_sequence: the last id AUTOINCREMENT handed out for
\* each table; proc: the requests in flight; seed: where a run of the
\* seeding program stands.
VARIABLES now, surveys, survey_responses, sqlite_sequence, proc, seed

vars == <<now, surveys, survey_responses, sqlite_sequence, proc, seed>>

\* ------------------------------------------------------------ pure helpers

\* SQLite CURRENT_TIMESTAMP: the clock at a resolution of one second.
CURRENT_TIMESTAMP(t) == (t \div Second) * Second

\* time.Since(createdAt), evaluated at clock t.
Since(createdAt, t) == t - createdAt

\* Mutant: a response exactly 24h old still counts as editable.
EditableInclusive(createdAt, t) == Since(createdAt, t) <= EditWindow

\* response.Editable = time.Since(response.CreatedAt) < 24*time.Hour
Editable(createdAt, t) == Since(createdAt, t) < EditWindow

\* Mutant: the gate lets a response exactly 24h old through.
EditExpiredStrict(createdAt, t) == Since(createdAt, t) > EditWindow

\* if time.Since(response.CreatedAt) >= 24*time.Hour { 422 }
EditExpired(createdAt, t) == Since(createdAt, t) >= EditWindow

\* binding:"required" on the string fields of CreateSurveyRequest: the
\* validator rejects the zero value, so an empty string fails the bind.
BindSurvey(title, desc) == title # 0 /\ desc # 0

\* binding:"required" on CreateResponseRequest.
BindCreateResponse(uid, data) ==
    uid # 0 /\ data # NoData /\ data # Malformed

\* UpdateResponseRequest carries no binding tag: ShouldBindJSON fails only
\* on a body that does not parse.
BindUpdateResponse(data) == data # Malformed

\* Mutant: the upper bounds refuse the limit values themselves.
SurveyErrorsInclusive(title, desc) ==
    (IF title < MinTitleLen THEN <<"Title must be at least 3 characters long">> ELSE <<>>)
    \o (IF title >= MaxTitleLen THEN <<"Title must be less than 255 characters">> ELSE <<>>)
    \o (IF desc >= MaxDescLen THEN <<"Description must be less than 1000 characters">> ELSE <<>>)

\* Mutant: the checks are chained, so only the first violation is reported.
SurveyErrorsFirstOnly(title, desc) ==
    IF title < MinTitleLen THEN <<"Title must be at least 3 characters long">>
    ELSE IF title > MaxTitleLen THEN <<"Title must be less than 255 characters">>
    ELSE IF desc > MaxDescLen THEN <<"Description must be less than 1000 characters">>
    ELSE <<>>

\* createSurvey's validation block: every check appends on its own.
SurveyErrors(title, desc) ==
    (IF title < MinTitleLen THEN <<"Title must be at least 3 characters long">> ELSE <<>>)
    \o (IF title > MaxTitleLen THEN <<"Title must be less than 255 characters">> ELSE <<>>)
    \o (IF desc > MaxDescLen THEN <<"Description must be less than 1000 characters">> ELSE <<>>)

\* Mutant: the lower bound refuses a userIdentifier of exactly 3 characters.
ResponseErrorsInclusive(uid) ==
    (IF uid <= MinUserLen THEN <<"User identifier must be at least 3 characters long">> ELSE <<>>)
    \o (IF uid > MaxUserLen THEN <<"User identifier must be less than 100 characters">> ELSE <<>>)

\* createSurveyResponse's validation block.
ResponseErrors(uid) ==
    (IF uid < MinUserLen THEN <<"User identifier must be at least 3 characters long">> ELSE <<>>)
    \o (IF uid > MaxUserLen THEN <<"User identifier must be less than 100 characters">> ELSE <<>>)

\* SELECT EXISTS(SELECT 1 FROM surveys WHERE id = ?)
SurveyExists(sid) == \E i \in 1..Len(surveys) : surveys[i].id = sid

\* Mutant: the lookup drops its survey_id condition.
ScopedRowsAnySurvey(rid, sid) ==
    {i \in 1..Len(survey_responses) : survey_responses[i].id = rid}

\* SELECT ... FROM survey_responses WHERE id = ? AND survey_id = ?
ScopedRows(rid, sid) ==
    {i \in 1..Len(survey_responses) :
        survey_responses[i].id = rid /\ survey_responses[i].survey_id = sid}

\* SELECT ... FROM surveys WHERE id = ?
SurveyRowsById(sid) == {i \in 1..Len(surveys) : surveys[i].id = sid}

\* SELECT ... FROM survey_responses WHERE id = ?
RowsById(rid) ==
    {i \in 1..Len(survey_responses) : survey_responses[i].id = rid}

\* ------------------------------------------------------------ request state

\* A request slot: what was asked (op and inputs), where the handler stands
\* (pc), whether a store call of the handler returned an error (err), and,
\* once pc = "done", what it answered.
Fresh ==
    [pc |-> "idle", op |-> "none",
     sid |-> 0, rid |-> 0, title |-> 0, desc |-> 0, uid |-> 0, data |-> NoData,
     newId |-> 0, err |-> FALSE, status |-> "none", errors |-> <<>>,
     out |-> <<>>]

CanStart(p) == proc[p].pc \in {"idle", "done"}

\* The seeding program before it is run: its position, the ids it got back
\* for the surveys it inserted, and the number of responses it inserted.
SeedIdle == [pc |-> "off", ids |-> <<>>, n |-> 0]

Finish(r, status, errors, out) ==
    [r EXCEPT !.pc = "done", !.status = status, !.errors = errors,
              !.out = out]

Init ==
    /\ now = 0
    /\ surveys = <<>>
    /\ survey_responses = <<>>
    /\ sqlite_sequence = [surveys |-> 0, survey_responses |-> 0]
    /\ proc = [p \in Procs |-> Fresh]
    /\ seed = SeedIdle

\* ------------------------------------------------------------------ clock
Tick ==
    /\ \E t \in Instants : t > now /\ now' = t
    /\ UNCHANGED <<surveys, survey_responses, sqlite_sequence, proc, seed>>

\* ----------------------------------------------------------- createSurvey

\* INSERT INTO surveys (title, description, created_at, updated_at)
\*   VALUES (?, ?, CURRENT_TIMESTAMP, CURRENT_TIMESTAMP)
InsertSurvey(title, desc) ==
    Append(surveys,
           [id |-> sqlite_sequence.surveys + 1, title |-> title, description |-> desc,
            created_at |-> CURRENT_TIMESTAMP(now),
            updated_at |-> CURRENT_TIMESTAMP(now)])

\* How far createSurvey gets before touching the store: the bind (400),
\* then the validation block (422), then the INSERT.
CreateSurveyOutcome(title, desc) ==
    IF ~BindSurvey(title, desc) THEN "StructuralParseFailure"
    ELSE IF Len(SurveyErrors(title, desc)) > 0 THEN "ValidationFailed"
    ELSE "insert"

\* createSurvey up to and including its INSERT: bind, validate, insert.
CreateSurveyWith(p, titles, descs) ==
    /\ CanStart(p)
    /\ Len(surveys) < MaxSurveys
    /\ \E title \in titles, desc \in descs :
         LET r == [Fresh EXCEPT !.op = "createSurvey", !.title = title, !.desc = desc]
             o == CreateSurveyOutcome(title, desc)
         IN  IF o = "insert"
             THEN /\ surveys' = InsertSurvey(title, desc)
                  /\ sqlite_sequence' =
                       [sqlite_sequence EXCEPT !.surveys = @ + 1]
                  /\ proc' = [proc EXCEPT ![p] =
                                [r EXCEPT !.pc = "readback",
                                          !.newId = sqlite_sequence.surveys + 1]]
             ELSE /\ proc' = [proc EXCEPT ![p] =
                                Finish(r, o, IF o = "ValidationFailed"
                                             THEN SurveyErrors(title, desc) ELSE <<>>, <<>>)]
                  /\ UNCHANGED <<surveys, sqlite_sequence>>
    /\ UNCHANGED <<now, survey_responses, seed>>

CreateSurvey(p) == CreateSurveyWith(p, TitleLens, DescLens)

\* SELECT id, title, description, created_at, updated_at, 0 as responses_count
\*   FROM surveys WHERE id = ?
\* A QueryRow that finds no row scans to sql.ErrNoRows, which this handler
\* answers with 500 like any other error.
CreateSurveyReadback(p) ==
    /\ proc[p].pc = "readback" /\ proc[p].op = "createSurvey"
    /\ proc' = [proc EXCEPT ![p] =
         IF SurveyRowsById(proc[p].newId) = {}
         THEN Finish([@ EXCEPT !.err = TRUE], "StoreError", <<>>, <<>>)
         ELSE LET s == surveys[CHOOSE i \in SurveyRowsById(proc[p].newId) : TRUE]
              IN  Finish(@, "ok", <<>>,
                         <<[id |-> s.id, title |-> s.title,
                            description |-> s.description,
                            created_at |-> s.created_at,
                            updated_at |-> s.updated_at,
                            responses_count |-> 0]>>)]
    /\ UNCHANGED <<now, surveys, survey_responses, sqlite_sequence, seed>>

\* ------------------------------------------------------------- getSurveys

\* Mutant: the join loses its ON condition, so every stored response counts
\* for every survey.
ResponsesCountUnjoined(sid) == Len(survey_responses)

\* COUNT(sr.id) over the LEFT JOIN, grouped by survey: the number of stored
\* responses whose survey_id is the survey's id; 0 when none joins.
ResponsesCount(sid) ==
    Cardinality({i \in 1..Len(survey_responses) :
                    survey_responses[i].survey_id = sid})

\* The Survey a read handler returns for a stored row.
SurveyWithCount(row) ==
    [id |-> row.id, title |-> row.title, description |-> row.description,
     created_at |-> row.created_at, updated_at |-> row.updated_at,
     responses_count |-> ResponsesCount(row.id)]

\* The orders in which ORDER BY s.created_at DESC may deliver the survey
\* rows: descending by created_at, rows with equal created_at in any order
\* (the query names no second key and SQLite leaves that order undefined).
ByCreatedAtDesc ==
    {f \in [1..Len(surveys) -> 1..Len(surveys)] :
        /\ \A i, j \in 1..Len(surveys) : i # j => f[i] # f[j]
        /\ \A i, j \in 1..Len(surveys) :
              i < j => surveys[f[i]].created_at >= surveys[f[j]].created_at}

GetSurveys(p) ==
    /\ CanStart(p)
    /\ \E f \in ByCreatedAtDesc :
         proc' = [proc EXCEPT ![p] =
            Finish([Fresh EXCEPT !.op = "listSurveys"], "ok", <<>>,
                   [i \in 1..Len(surveys) |-> SurveyWithCount(surveys[f[i]])])]
    /\ UNCHANGED <<now, surveys, survey_responses, sqlite_sequence, seed>>

\* -------------------------------------------------------------- getSurvey

\* Mutant: an inner join, which finds no row for a survey without responses.
GetSurveyInnerJoin(p) ==
    /\ CanStart(p)
    /\ \E sid \in 1..(sqlite_sequence.surveys + 1) :
         LET r == [Fresh EXCEPT !.op = "getSurvey", !.sid = sid]
         IN  proc' = [proc EXCEPT ![p] =
                 IF SurveyRowsById(sid) = {} \/ ResponsesCount(sid) = 0
                 THEN Finish(r, "NotFound", <<>>, <<>>)
                 ELSE Finish(r, "ok", <<>>,
                             <<SurveyWithCount(
                                 surveys[CHOOSE i \in SurveyRowsById(sid) : TRUE])>>)]
    /\ UNCHANGED <<now, surveys, survey_responses, sqlite_sequence, seed>>

\* The same join restricted to one id; no row scans to sql.ErrNoRows (404).
GetSurvey(p) ==
    /\ CanStart(p)
    /\ \E sid \in 1..(sqlite_sequence.surveys + 1) :
         LET r == [Fresh EXCEPT !.op = "getSurvey", !.sid = sid]
         IN  proc' = [proc EXCEPT ![p] =
                 IF SurveyRowsById(sid) = {}
                 THEN Finish(r, "NotFound", <<>>, <<>>)
                 ELSE Finish(r, "ok", <<>>,
                             <<SurveyWithCount(
                                 surveys[CHOOSE i \in SurveyRowsById(sid) : TRUE])>>)]
    /\ UNCHANGED <<now, surveys, survey_responses, sqlite_sequence, seed>>

\* --------------------------------------------------- createSurveyResponse

\* Survey ids a request may name: every id handed out so far and one that
\* was not.
SurveyIds == 1..(sqlite_sequence.surveys + 1)

\* Survey ids a lookup of a response is scoped by: those of stored surveys.
StoredSurveyIds == {surveys[i].id : i \in 1..Len(surveys)}

\* Response ids a request may name: every id handed out so far and one that
\* was not.
ResponseIds == 1..(sqlite_sequence.survey_responses + 1)

\* Inserts of createSurveyResponse that passed validation and are pending.
PendingInserts ==
    Cardinality({q \in Procs : proc[q].pc = "insert"})

\* Mutant: the body is bound and validated before the survey is looked up.
CreateResponseOutcomeValidateFirst(sid, uid, data) ==
    IF ~BindCreateResponse(uid, data) THEN "StructuralParseFailure"
    ELSE IF Len(ResponseErrors(uid)) > 0 THEN "ValidationFailed"
    ELSE IF ~SurveyExists(sid) THEN "NotFound"
    ELSE "insert"

\* How far createSurveyResponse gets before its INSERT: the survey's
\* existence (404), then the bind (400), then the validation block (422).
CreateResponseOutcome(sid, uid, data) ==
    IF ~SurveyExists(sid) THEN "NotFound"
    ELSE IF ~BindCreateResponse(uid, data) THEN "StructuralParseFailure"
    ELSE IF Len(ResponseErrors(uid)) > 0 THEN "ValidationFailed"
    ELSE "insert"

\* createSurveyResponse up to its INSERT: existence check, bind, validate.
CreateSurveyResponseWith(p, sids, uids, datas) ==
    /\ CanStart(p)
    /\ Len(survey_responses) + PendingInserts < MaxResponses
    /\ \E sid \in sids, uid \in uids, data \in datas :
         LET r == [Fresh EXCEPT !.op = "createResponse", !.sid = sid,
                                !.uid = uid, !.data = data]
             o == CreateResponseOutcome(sid, uid, data)
         IN  proc' = [proc EXCEPT ![p] =
                 IF o = "insert"
                 THEN [r EXCEPT !.pc = "insert"]
                 ELSE Finish(r, o, IF o = "ValidationFailed"
                                   THEN ResponseErrors(uid) ELSE <<>>, <<>>)]
    /\ UNCHANGED <<now, surveys, survey_responses, sqlite_sequence, seed>>

CreateSurveyResponse(p) ==
    CreateSurveyResponseWith(p, SurveyIds, UserLens, Data \cup {NoData})

\* Mutant: created_at is taken from the server's clock, at full resolution,
\* and only updated_at from the store.
InsertResponseOwnClock(sid, uid, data) ==
    Append(survey_responses,
           [id |-> sqlite_sequence.survey_responses + 1, survey_id |-> sid,
            user_identifier |-> uid, response_data |-> data,
            created_at |-> now,
            updated_at |-> CURRENT_TIMESTAMP(now)])

\* INSERT INTO survey_responses (survey_id, user_identifier, response_data,
\*   created_at, updated_at) VALUES (?, ?, ?, CURRENT_TIMESTAMP, CURRENT_TIMESTAMP)
InsertResponse(sid, uid, data) ==
    Append(survey_responses,
           [id |-> sqlite_sequence.survey_responses + 1, survey_id |-> sid,
            user_identifier |-> uid, response_data |-> data,
            created_at |-> CURRENT_TIMESTAMP(now),
            updated_at |-> CURRENT_TIMESTAMP(now)])

CreateSurveyResponseInsert(p) ==
    /\ proc[p].pc = "insert" /\ proc[p].op = "createResponse"
    /\ survey_responses' = InsertResponse(proc[p].sid, proc[p].uid, proc[p].data)
    /\ sqlite_sequence' = [sqlite_sequence EXCEPT !.survey_responses = @ + 1]
    /\ proc' = [proc EXCEPT ![p] =
                  [@ EXCEPT !.pc = "readback",
                            !.newId = sqlite_sequence.survey_responses + 1]]
    /\ UNCHANGED <<now, surveys, seed>>

\* The response row as a handler returns it, with its editable annotation.
Annotated(row, editable) ==
    [id |-> row.id, survey_id |-> row.survey_id,
     user_identifier |-> row.user_identifier,
     response_data |-> row.response_data,
     created_at |-> row.created_at, updated_at |-> row.updated_at,
     editable |-> editable]

\* SELECT ... FROM survey_responses WHERE id = ?; response.Editable = true
CreateSurveyResponseReadback(p) ==
    /\ proc[p].pc = "readback" /\ proc[p].op = "createResponse"
    /\ proc' = [proc EXCEPT ![p] =
         IF RowsById(proc[p].newId) = {}
         THEN Finish([@ EXCEPT !.err = TRUE], "StoreError", <<>>, <<>>)
         ELSE Finish(@, "ok", <<>>,
                     <<Annotated(survey_responses[CHOOSE i \in RowsById(proc[p].newId) : TRUE],
                                 TRUE)>>)]
    /\ UNCHANGED <<now, surveys, survey_responses, sqlite_sequence, seed>>

\* ------------------------------------------------------ getSurveyResponse
GetSurveyResponseWith(p, sids) ==
    /\ CanStart(p)
    /\ \E sid \in sids, rid \in ResponseIds :
         LET r == [Fresh EXCEPT !.op = "getResponse", !.sid = sid, !.rid = rid]
         IN  proc' = [proc EXCEPT ![p] =
                 IF ScopedRows(rid, sid) = {}
                 THEN Finish(r, "NotFound", <<>>, <<>>)
                 ELSE LET row == survey_responses[CHOOSE i \in ScopedRows(rid, sid) : TRUE]
                      IN  Finish(r, "ok", <<>>,
                                 <<Annotated(row, Editable(row.created_at, now))>>)]
    /\ UNCHANGED <<now, surveys, survey_responses, sqlite_sequence, seed>>

GetSurveyResponse(p) == GetSurveyResponseWith(p, StoredSurveyIds)

\* ----------------------------------------------------- getSurveyResponses

\* The orders in which a SELECT ... ORDER BY updated_at DESC may deliver the
\* rows at the given positions: SQLite leaves the order of rows with equal
\* keys open.
ByUpdatedAtDesc(rows) ==
    {f \in [1..Cardinality(rows) -> rows] :
        /\ \A i, j \in 1..Cardinality(rows) : i # j => f[i] # f[j]
        /\ \A i, j \in 1..Cardinality(rows) :
              i < j => survey_responses[f[i]].updated_at
                          >= survey_responses[f[j]].updated_at}

\* Mutant: the query loses its WHERE clause.
RowsOfAnySurvey(sid) == 1..Len(survey_responses)

\* SELECT ... FROM survey_responses WHERE survey_id = ?
RowsOfSurvey(sid) ==
    {i \in 1..Len(survey_responses) : survey_responses[i].survey_id = sid}

\* Existence check, then the query; every row is annotated on its own.
GetSurveyResponsesWith(p, sids) ==
    /\ CanStart(p)
    /\ \E sid \in sids :
         LET r == [Fresh EXCEPT !.op = "listResponses", !.sid = sid]
         IN  IF ~SurveyExists(sid)
             THEN proc' = [proc EXCEPT ![p] = Finish(r, "NotFound", <<>>, <<>>)]
             ELSE \E f \in ByUpdatedAtDesc(RowsOfSurvey(sid)) :
                    proc' = [proc EXCEPT ![p] =
                       Finish(r, "ok", <<>>,
                              [i \in 1..Cardinality(RowsOfSurvey(sid)) |->
                                 Annotated(survey_responses[f[i]],
                                           Editable(survey_responses[f[i]].created_at, now))])]
    /\ UNCHANGED <<now, surveys, survey_responses, sqlite_sequence, seed>>

GetSurveyResponses(p) == GetSurveyResponsesWith(p, SurveyIds)

\* ------------------------------------------------------- getUserResponses

\* User identifiers a lookup may name.
LookupUsers == {MinUserLen, MaxUserLen}

\* SELECT ... FROM survey_responses sr JOIN surveys s ON sr.survey_id = s.id
\*   WHERE sr.user_identifier = ?
RowsOfUser(uid) ==
    {i \in 1..Len(survey_responses) :
        /\ survey_responses[i].user_identifier = uid
        /\ SurveyExists(survey_responses[i].survey_id)}

\* Mutant: the embedded survey is the first survey of the table.
SurveyOfFirst(row) == surveys[1]

\* The joined survey row of a response.
SurveyOf(row) == surveys[CHOOSE k \in 1..Len(surveys) : surveys[k].id = row.survey_id]

\* UserResponse: the response with its survey's id, title and description.
UserResponse(row, editable) ==
    [id |-> row.id,
     survey |-> [id |-> SurveyOf(row).id, title |-> SurveyOf(row).title,
                 description |-> SurveyOf(row).description],
     user_identifier |-> row.user_identifier,
     response_data |-> row.response_data,
     created_at |-> row.created_at, updated_at |-> row.updated_at,
     editable |-> editable]

GetUserResponses(p) ==
    /\ CanStart(p)
    /\ \E uid \in LookupUsers :
         LET r == [Fresh EXCEPT !.op = "listResponsesByUser", !.uid = uid]
         IN  \E f \in ByUpdatedAtDesc(RowsOfUser(uid)) :
                proc' = [proc EXCEPT ![p] =
                   Finish(r, "ok", <<>>,
                          [i \in 1..Cardinality(RowsOfUser(uid)) |->
                             UserResponse(survey_responses[f[i]],
                                          Editable(survey_responses[f[i]].created_at, now))])]
    /\ UNCHANGED <<now, surveys, survey_responses, sqlite_sequence, seed>>

\* --------------------------------------------------- updateSurveyResponse

\* updateSurveyResponse up to its UPDATE: scoped fetch, edit-window gate.
\* (UpdateResponseRequest has no required field: an absent response_data
\* binds to a nil RawMessage.)
UpdateSurveyResponseWith(p, sids, datas) ==
    /\ CanStart(p)
    /\ \E sid \in sids, rid \in ResponseIds, data \in datas :
         LET r == [Fresh EXCEPT !.op = "updateResponse", !.sid = sid,
                                !.rid = rid, !.data = data]
         IN  proc' = [proc EXCEPT ![p] =
                 IF ScopedRows(rid, sid) = {}
                 THEN Finish(r, "NotFound", <<>>, <<>>)
                 ELSE LET row == survey_responses[CHOOSE i \in ScopedRows(rid, sid) : TRUE]
                      IN  IF EditExpired(row.created_at, now)
                          THEN Finish(r, "EditWindowExpired", <<>>, <<>>)
                          ELSE IF ~BindUpdateResponse(data)
                          THEN Finish(r, "StructuralParseFailure", <<>>, <<>>)
                          ELSE [r EXCEPT !.pc = "update"]]
    /\ UNCHANGED <<now, surveys, survey_responses, sqlite_sequence, seed>>

UpdateSurveyResponse(p) ==
    UpdateSurveyResponseWith(p, StoredSurveyIds, Data \cup {NoData})

\* Mutant: the UPDATE writes nothing when another update of the same
\* response has written and not yet returned (the first write wins).
UpdateRowsFirstWins(data, rid, sid) ==
    [i \in 1..Len(survey_responses) |->
        IF /\ i \in ScopedRows(rid, sid)
           /\ ~\E q \in Procs : /\ proc[q].op = "updateResponse"
                                 /\ proc[q].pc = "readback"
                                 /\ proc[q].rid = rid
        THEN [survey_responses[i] EXCEPT !.response_data = data,
                                         !.updated_at = CURRENT_TIMESTAMP(now)]
        ELSE survey_responses[i]]

\* Mutant: the UPDATE is keyed by the survey alone and so rewrites every
\* response of the survey.
UpdateRowsOfSurvey(data, rid, sid) ==
    [i \in 1..Len(survey_responses) |->
        IF survey_responses[i].survey_id = sid
        THEN [survey_responses[i] EXCEPT !.response_data = data,
                                         !.updated_at = CURRENT_TIMESTAMP(now)]
        ELSE survey_responses[i]]

\* Mutant: the UPDATE stamps created_at as well, so an edit restarts the
\* response's window.
UpdateRowsRestamp(data, rid, sid) ==
    [i \in 1..Len(survey_responses) |->
        IF i \in ScopedRows(rid, sid)
        THEN [survey_responses[i] EXCEPT !.response_data = data,
                                         !.created_at = CURRENT_TIMESTAMP(now),
                                         !.updated_at = CURRENT_TIMESTAMP(now)]
        ELSE survey_responses[i]]

\* Mutant: the UPDATE sets response_data and forgets updated_at.
UpdateRowsDataOnly(data, rid, sid) ==
    [i \in 1..Len(survey_responses) |->
        IF i \in ScopedRows(rid, sid)
        THEN [survey_responses[i] EXCEPT !.response_data = data]
        ELSE survey_responses[i]]

\* UPDATE survey_responses SET response_data = ?, updated_at = CURRENT_TIMESTAMP
\*   WHERE id = ? AND survey_id = ?
UpdateRows(data, rid, sid) ==
    [i \in 1..Len(survey_responses) |->
        IF i \in ScopedRows(rid, sid)
        THEN [survey_responses[i] EXCEPT !.response_data = data,
                                         !.updated_at = CURRENT_TIMESTAMP(now)]
        ELSE survey_responses[i]]

\* A nil RawMessage is bound as SQL NULL, which the column's NOT NULL
\* constraint (response_data TEXT NOT NULL) refuses: the Exec fails.
UpdateSurveyResponseExec(p) ==
    /\ proc[p].pc = "update" /\ proc[p].op = "updateResponse"
    /\ IF proc[p].data = NoData
       THEN /\ proc' = [proc EXCEPT ![p] =
                           Finish([@ EXCEPT !.err = TRUE], "StoreError", <<>>, <<>>)]
            /\ UNCHANGED survey_responses
       ELSE /\ survey_responses' = UpdateRows(proc[p].data, proc[p].rid, proc[p].sid)
            /\ proc' = [proc EXCEPT ![p] = [@ EXCEPT !.pc = "readback"]]
    /\ UNCHANGED <<now, surveys, sqlite_sequence, seed>>

\* Mutant: the answer echoes the request's payload and, as
\* createSurveyResponse does, sets editable to true outright.
UpdateSurveyResponseReadbackEcho(p) ==
    /\ proc[p].pc = "readback" /\ proc[p].op = "updateResponse"
    /\ LET row == survey_responses[CHOOSE i \in RowsById(proc[p].rid) : TRUE]
       IN  proc' = [proc EXCEPT ![p] =
                      Finish(@, "ok", <<>>,
                             <<Annotated([row EXCEPT !.response_data = proc[p].data],
                                         TRUE)>>)]
    /\ UNCHANGED <<now, surveys, survey_responses, sqlite_sequence, seed>>

\* SELECT ... FROM survey_responses WHERE id = ?;
\* response.Editable = time.Since(response.CreatedAt) < 24*time.Hour
UpdateSurveyResponseReadback(p) ==
    /\ proc[p].pc = "readback" /\ proc[p].op = "updateResponse"
    /\ proc' = [proc EXCEPT ![p] =
         IF RowsById(proc[p].rid) = {}
         THEN Finish([@ EXCEPT !.err = TRUE], "StoreError", <<>>, <<>>)
         ELSE LET row == survey_responses[CHOOSE i \in RowsById(proc[p].rid) : TRUE]
              IN  Finish(@, "ok", <<>>,
                         <<Annotated(row, Editable(row.created_at, now))>>)]
    /\ UNCHANGED <<now, surveys, survey_responses, sqlite_sequence, seed>>

\* ------------------------------------------------- store calls that fail

\* The answer of a handler one of whose store calls returned an error: the
\* status its error branch sends, and no data.
Failed(r, status) == Finish([r EXCEPT !.err = TRUE], status, <<>>, <<>>)

\* getSurveys, getSurvey, getSurveyResponse, getUserResponses: the query
\* fails, 500.
GetSurveysFails(p) ==
    /\ CanStart(p)
    /\ proc' = [proc EXCEPT ![p] =
         Failed([Fresh EXCEPT !.op = "listSurveys"], "StoreError")]
    /\ UNCHANGED <<now, surveys, survey_responses, sqlite_sequence, seed>>

GetSurveyFails(p) ==
    /\ CanStart(p)
    /\ \E sid \in StoredSurveyIds :
         proc' = [proc EXCEPT ![p] =
            Failed([Fresh EXCEPT !.op = "getSurvey", !.sid = sid], "StoreError")]
    /\ UNCHANGED <<now, surveys, survey_responses, sqlite_sequence, seed>>

GetSurveyResponseFails(p) ==
    /\ CanStart(p)
    /\ \E sid \in StoredSurveyIds :
         proc' = [proc EXCEPT ![p] =
            Failed([Fresh EXCEPT !.op = "getResponse", !.sid = sid, !.rid = 1], "StoreError")]
    /\ UNCHANGED <<now, surveys, survey_responses, sqlite_sequence, seed>>

GetUserResponsesFails(p) ==
    /\ CanStart(p)
    /\ proc' = [proc EXCEPT ![p] =
         Failed([Fresh EXCEPT !.op = "listResponsesByUser", !.uid = MinUserLen], "StoreError")]
    /\ UNCHANGED <<now, surveys, survey_responses, sqlite_sequence, seed>>

\* createSurvey: the INSERT of a valid request fails, 500, no row; or the
\* read-back fails, 500, with the row inserted.
CreateSurveyInsertFails(p) ==
    /\ CanStart(p)
    /\ proc' = [proc EXCEPT ![p] =
         Failed([Fresh EXCEPT !.op = "createSurvey", !.title = MinTitleLen,
                         !.desc = 1], "StoreError")]
    /\ UNCHANGED <<now, surveys, survey_responses, sqlite_sequence, seed>>

CreateSurveyReadbackFails(p) ==
    /\ proc[p].op = "createSurvey" /\ proc[p].pc = "readback"
    /\ proc' = [proc EXCEPT ![p] = Failed(@, "StoreError")]
    /\ UNCHANGED <<now, surveys, survey_responses, sqlite_sequence, seed>>

\* getSurveyResponses and createSurveyResponse: the EXISTS query fails; the
\* handlers test err != nil || !exists and answer 404 "Survey not found".
GetSurveyResponsesExistsFails(p) ==
    /\ CanStart(p)
    /\ \E sid \in StoredSurveyIds :
         proc' = [proc EXCEPT ![p] =
            Failed([Fresh EXCEPT !.op = "listResponses", !.sid = sid], "NotFound")]
    /\ UNCHANGED <<now, surveys, survey_responses, sqlite_sequence, seed>>

CreateSurveyResponseExistsFails(p) ==
    /\ CanStart(p)
    /\ \E sid \in StoredSurveyIds :
         proc' = [proc EXCEPT ![p] =
            Failed([Fresh EXCEPT !.op = "createResponse", !.sid = sid,
                            !.uid = MinUserLen, !.data = 1], "NotFound")]
    /\ UNCHANGED <<now, surveys, survey_responses, sqlite_sequence, seed>>

\* getSurveyResponses: the SELECT fails, 500.
GetSurveyResponsesQueryFails(p) ==
    /\ CanStart(p)
    /\ \E sid \in StoredSurveyIds :
         proc' = [proc EXCEPT ![p] =
            Failed([Fresh EXCEPT !.op = "listResponses", !.sid = sid], "StoreError")]
    /\ UNCHANGED <<now, surveys, survey_responses, sqlite_sequence, seed>>

\* getSurveyResponses: rows.Next() fails part-way; the loop ends, rows.Err()
\* is never looked at, and the rows scanned so far are sent with 200.
GetSurveyResponsesNextFails(p) ==
    /\ CanStart(p)
    /\ \E sid \in StoredSurveyIds :
         \E f \in ByUpdatedAtDesc(RowsOfSurvey(sid)) :
           \E k \in 0..(Cardinality(RowsOfSurvey(sid)) - 1) :
             proc' = [proc EXCEPT ![p] =
                Finish([Fresh EXCEPT !.op = "listResponses", !.sid = sid, !.err = TRUE],
                       "ok", <<>>,
                       [i \in 1..k |->
                          Annotated(survey_responses[f[i]],
                                    Editable(survey_responses[f[i]].created_at, now))])]
    /\ UNCHANGED <<now, surveys, survey_responses, sqlite_sequence, seed>>

\* createSurveyResponse: the INSERT fails, 500, no row; or the read-back
\* fails, 500, with the row inserted.
CreateSurveyResponseInsertFails(p) ==
    /\ proc[p].op = "createResponse" /\ proc[p].pc = "insert"
    /\ proc' = [proc EXCEPT ![p] = Failed(@, "StoreError")]
    /\ UNCHANGED <<now, surveys, survey_responses, sqlite_sequence, seed>>

CreateSurveyResponseReadbackFails(p) ==
    /\ proc[p].op = "createResponse" /\ proc[p].pc = "readback"
    /\ proc' = [proc EXCEPT ![p] = Failed(@, "StoreError")]
    /\ UNCHANGED <<now, surveys, survey_responses, sqlite_sequence, seed>>

\* updateSurveyResponse: the scoped SELECT fails, 500; the UPDATE fails,
\* 500, row as it was; or the read-back fails, 500, with the row updated.
UpdateSurveyResponseFetchFails(p) ==
    /\ CanStart(p)
    /\ \E sid \in StoredSurveyIds :
         proc' = [proc EXCEPT ![p] =
            Failed([Fresh EXCEPT !.op = "updateResponse", !.sid = sid, !.rid = 1,
                            !.data = 1], "StoreError")]
    /\ UNCHANGED <<now, surveys, survey_responses, sqlite_sequence, seed>>

UpdateSurveyResponseExecFails(p) ==
    /\ proc[p].op = "updateResponse" /\ proc[p].pc = "update"
    /\ proc' = [proc EXCEPT ![p] = Failed(@, "StoreError")]
    /\ UNCHANGED <<now, surveys, survey_responses, sqlite_sequence, seed>>

UpdateSurveyResponseReadbackFails(p) ==
    /\ proc[p].op = "updateResponse" /\ proc[p].pc = "readback"
    /\ proc' = [proc EXCEPT ![p] = Failed(@, "StoreError")]
    /\ UNCHANGED <<now, surveys, survey_responses, sqlite_sequence, seed>>

\* Some store call of some request fails.
StoreCallFails ==
    \/ \E p \in Procs : GetSurveysFails(p)
    \/ \E p \in Procs : GetSurveyFails(p)
    \/ \E p \in Procs : GetSurveyResponseFails(p)
    \/ \E p \in Procs : GetUserResponsesFails(p)
    \/ \E p \in Procs : CreateSurveyInsertFails(p)
    \/ \E p \in Procs : CreateSurveyReadbackFails(p)
    \/ \E p \in Procs : GetSurveyResponsesExistsFails(p)
    \/ \E p \in Procs : GetSurveyResponsesQueryFails(p)
    \/ \E p \in Procs : GetSurveyResponsesNextFails(p)
    \/ \E p \in Procs : CreateSurveyResponseExistsFails(p)
    \/ \E p \in Procs : CreateSurveyResponseInsertFails(p)
    \/ \E p \in Procs : CreateSurveyResponseReadbackFails(p)
    \/ \E p \in Procs : UpdateSurveyResponseFetchFails(p)
    \/ \E p \in Procs : UpdateSurveyResponseExecFails(p)
    \/ \E p \in Procs : UpdateSurveyResponseReadbackFails(p)

\* ----------------------------------------------------------------- seed.go

\* The sample surveys (title and description, by length) and the sample
\* responses (position of the survey among those just inserted, user
\* identifier by length, payload).
SeedTitles == <<28, 26, 21>>
SeedDescriptions == <<82, 91, 89>>
SeedResponseSurvey == <<1, 1, 2, 3>>
SeedResponseUser == <<7, 7, 11, 11>>
SeedResponseData == [i \in 1..4 |-> ((i - 1) % NumData) + 1]

\* DELETE FROM survey_responses
SeedDeleteResponses ==
    /\ seed.pc = "off"
    /\ survey_responses' = <<>>
    /\ seed' = [seed EXCEPT !.pc = "deleteSurveys"]
    /\ UNCHANGED <<now, surveys, sqlite_sequence, proc>>

\* DELETE FROM surveys.  The connection is opened without the foreign_keys
\* pragma, so SQLite does not enforce the FOREIGN KEY clause of the schema:
\* nothing cascades, and responses stored by now stay.
SeedDeleteSurveys ==
    /\ seed.pc = "deleteSurveys"
    /\ surveys' = <<>>
    /\ seed' = [seed EXCEPT !.pc = "insertSurveys"]
    /\ UNCHANGED <<now, survey_responses, sqlite_sequence, proc>>

\* INSERT INTO surveys (title, description) VALUES (?, ?); LastInsertId().
\* AUTOINCREMENT never hands out an id again, deleted rows or not.
SeedInsertSurvey ==
    /\ seed.pc = "insertSurveys"
    /\ LET k == Len(seed.ids) + 1
       IN  /\ surveys' = InsertSurvey(SeedTitles[k], SeedDescriptions[k])
           /\ seed' = [seed EXCEPT
                         !.ids = Append(@, sqlite_sequence.surveys + 1),
                         !.pc = IF k = Len(SeedTitles)
                                THEN "insertResponses" ELSE "insertSurveys"]
    /\ sqlite_sequence' = [sqlite_sequence EXCEPT !.surveys = @ + 1]
    /\ UNCHANGED <<now, survey_responses, proc>>

\* INSERT INTO survey_responses (survey_id, user_identifier, response_data)
\*   VALUES (?, ?, ?), for the ids remembered from the survey inserts.
SeedInsertResponse ==
    /\ seed.pc = "insertResponses"
    /\ LET k == seed.n + 1
       IN  /\ survey_responses' =
                 InsertResponse(seed.ids[SeedResponseSurvey[k]],
                                SeedResponseUser[k], SeedResponseData[k])
           /\ seed' = [seed EXCEPT
                         !.n = k,
                         !.pc = IF k = Len(SeedResponseSurvey)
                                THEN "done" ELSE "insertResponses"]
    /\ sqlite_sequence' = [sqlite_sequence EXCEPT !.survey_responses = @ + 1]
    /\ UNCHANGED <<now, surveys, proc>>

\* One statement of the seeding program.
SeedStep ==
    \/ SeedDeleteResponses
    \/ SeedDeleteSurveys
    \/ SeedInsertSurvey
    \/ SeedInsertResponse

\* ------------------------------------------------------------------- specs
Next ==
    \/ Tick
    \/ \E p \in Procs : GetSurveys(p)
    \/ \E p \in Procs : GetSurvey(p)
    \/ \E p \in Procs : CreateSurvey(p)
    \/ \E p \in Procs : CreateSurveyReadback(p)
    \/ \E p \in Procs : CreateSurveyResponse(p)
    \/ \E p \in Procs : CreateSurveyResponseInsert(p)
    \/ \E p \in Procs : CreateSurveyResponseReadback(p)
    \/ \E p \in Procs : GetSurveyResponse(p)
    \/ \E p \in Procs : GetSurveyResponses(p)
    \/ \E p \in Procs : GetUserResponses(p)
    \/ \E p \in Procs : UpdateSurveyResponse(p)
    \/ \E p \in Procs : UpdateSurveyResponseExec(p)
    \/ \E p \in Procs : UpdateSurveyResponseReadback(p)
    \/ StoreCallFails
    \/ SeedStep

Spec == Init /\ [][Next]_vars

\* The store as the seeding program leaves it for the server to open: the
\* surveys are there, created before the server started.
SeedSurveys ==
    [i \in 1..MaxSurveys |->
        [id |-> i, title |-> MinTitleLen, description |-> 1,
         created_at |-> 0, updated_at |-> 0]]

InitSeeded ==
    /\ now = 0
    /\ surveys = SeedSurveys
    /\ survey_responses = <<>>
    /\ sqlite_sequence = [surveys |-> Len(SeedSurveys), survey_responses |-> 0]
    /\ proc = [p \in Procs |-> Fresh]
    /\ seed = SeedIdle

\* Survey creation on its own.
NextSurvey ==
    \/ Tick
    \/ \E p \in Procs : CreateSurvey(p)
    \/ \E p \in Procs : CreateSurveyReadback(p)

SpecSurvey == Init /\ [][NextSurvey]_vars

\* Response submission against a seeded store: to every stored survey and
\* to one that is not stored, with every userIdentifier length, and with
\* one payload or none.
NextSubmit ==
    \/ Tick
    \/ \E p \in Procs :
         CreateSurveyResponseWith(p, SurveyIds, UserLens, {NoData, 1})
    \/ \E p \in Procs : CreateSurveyResponseInsert(p)
    \/ \E p \in Procs : CreateSurveyResponseReadback(p)

SpecSubmit == InitSeeded /\ [][NextSubmit]_vars

\* The seeded store with one response in it, submitted to the first survey
\* at the instant the behaviour starts.
SeedResponses ==
    <<[id |-> 1, survey_id |-> 1, user_identifier |-> MinUserLen,
       response_data |-> 1, created_at |-> 0, updated_at |-> 0]>>

InitEdit ==
    /\ now = 0
    /\ surveys = SeedSurveys
    /\ survey_responses = SeedResponses
    /\ sqlite_sequence = [surveys |-> Len(SeedSurveys),
                          survey_responses |-> Len(SeedResponses)]
    /\ proc = [p \in Procs |-> Fresh]
    /\ seed = SeedIdle

\* Reading and editing a stored response, through the survey that owns it
\* and through another stored survey.
NextEdit ==
    \/ Tick
    \/ \E p \in Procs : GetSurveyResponseWith(p, {1, Len(surveys)})
    \/ \E p \in Procs : GetSurveyResponsesWith(p, {1, Len(surveys) + 1})
    \/ \E p \in Procs : GetUserResponses(p)
    \/ \E p \in Procs :
         UpdateSurveyResponseWith(p, {1, Len(surveys)}, Data \cup {NoData})
    \/ \E p \in Procs : UpdateSurveyResponseExec(p)
    \/ \E p \in Procs : UpdateSurveyResponseReadback(p)

SpecEdit == InitEdit /\ [][NextEdit]_vars

\* A store some way into its life, for the read handlers: the surveys were
\* created in the same second or, when late, all but the first a second
\* after it; three responses were submitted in turn, two to the first
\* survey by different users and one to the second survey, and, when late,
\* the second response was edited a second after the first was submitted.
ListedSurveys(late) ==
    [i \in 1..MaxSurveys |->
        [id |-> i, title |-> MinTitleLen + i, description |-> i,
         created_at |-> IF late /\ i > 1 THEN Second ELSE 0,
         updated_at |-> IF late /\ i > 1 THEN Second ELSE 0]]

ListedResponses(late) ==
    <<[id |-> 1, survey_id |-> 1, user_identifier |-> MinUserLen,
       response_data |-> 1, created_at |-> 0, updated_at |-> 0],
      [id |-> 2, survey_id |-> 1, user_identifier |-> MaxUserLen,
       response_data |-> 1, created_at |-> 0,
       updated_at |-> IF late THEN Second ELSE 0],
      [id |-> 3, survey_id |-> 2, user_identifier |-> MinUserLen,
       response_data |-> NumData,
       created_at |-> IF late THEN Second ELSE 0,
       updated_at |-> IF late THEN Second ELSE 0]>>

\* Any of these stores, at any point of the submissions.
InitList ==
    /\ now = Second
    /\ \E late \in BOOLEAN : \E k \in 0..Len(ListedResponses(late)) :
         /\ surveys = ListedSurveys(late)
         /\ survey_responses = SubSeq(ListedResponses(late), 1, k)
         /\ sqlite_sequence = [surveys |-> MaxSurveys, survey_responses |-> k]
    /\ proc = [p \in Procs |-> Fresh]
    /\ seed = SeedIdle

\* The read handlers, over a store that no request writes.
NextList ==
    \/ Tick
    \/ \E p \in Procs : GetSurveys(p)
    \/ \E p \in Procs : GetSurvey(p)
    \/ \E p \in Procs : GetSurveyResponses(p)
    \/ \E p \in Procs : GetUserResponses(p)

SpecList == InitList /\ [][NextList]_vars

\* The seeded store with room for one more survey, for the writing handlers
\* under a store whose calls can fail.
InitFault ==
    /\ now = 0
    /\ surveys = SubSeq(SeedSurveys, 1, MaxSurveys - 1)
    /\ survey_responses = <<>>
    /\ sqlite_sequence = [surveys |-> MaxSurveys - 1, survey_responses |-> 0]
    /\ proc = [p \in Procs |-> Fresh]
    /\ seed = SeedIdle

NextFault ==
    \/ \E p \in Procs : CreateSurveyWith(p, {MinTitleLen}, {1})
    \/ \E p \in Procs : CreateSurveyReadback(p)
    \/ \E p \in Procs : CreateSurveyResponseWith(p, {1}, {MinUserLen}, {1})
    \/ \E p \in Procs : CreateSurveyResponseInsert(p)
    \/ \E p \in Procs : CreateSurveyResponseReadback(p)
    \/ \E p \in Procs : UpdateSurveyResponseWith(p, {1}, {NumData})
    \/ \E p \in Procs : UpdateSurveyResponseExec(p)
    \/ \E p \in Procs : UpdateSurveyResponseReadback(p)
    \/ \E p \in Procs : GetSurveyResponsesWith(p, {1})
    \/ StoreCallFails

SpecFault == InitFault /\ [][NextFault]_vars

\* The seeding program run on the database file of a running server that
\* is taking submissions to the first survey.
NextSeed ==
    \/ \E p \in Procs : CreateSurveyResponseWith(p, {1}, {MinUserLen}, {1})
    \/ \E p \in Procs : CreateSurveyResponseInsert(p)
    \/ \E p \in Procs : CreateSurveyResponseReadback(p)
    \/ SeedDeleteResponses
    \/ SeedDeleteSurveys
    \/ SeedInsertSurvey
    \/ SeedInsertResponse

SpecSeed == InitSeeded /\ [][NextSeed]_vars

\* The seeded store with room for one more survey and no response yet, for
\* the three handlers that take a body: each is sent a body that binds and
\* one that does not, createSurveyResponse to stored surveys and to one
\* that is not stored, updateSurveyResponse to stored responses of any age
\* and to one that is not stored.
NextParse ==
    \/ Tick
    \/ \E p \in Procs : CreateSurveyWith(p, {0, MinTitleLen}, {1})
    \/ \E p \in Procs : CreateSurveyReadback(p)
    \/ \E p \in Procs :
         CreateSurveyResponseWith(p, SurveyIds, {MinUserLen},
                                  {NoData, Malformed, 1})
    \/ \E p \in Procs : CreateSurveyResponseInsert(p)
    \/ \E p \in Procs : CreateSurveyResponseReadback(p)
    \/ \E p \in Procs : UpdateSurveyResponseWith(p, {1}, {Malformed, 1})
    \/ \E p \in Procs : UpdateSurveyResponseExec(p)
    \/ \E p \in Procs : UpdateSurveyResponseReadback(p)

SpecParse == InitFault /\ [][NextParse]_vars

\* The seeded response of the first survey as it ages: read alone, in its
\* survey's list and in its user's list, and edited.
NextWindow ==
    \/ Tick
    \/ \E p \in Procs : GetSurveyResponseWith(p, {1})
    \/ \E p \in Procs : GetSurveyResponsesWith(p, {1})
    \/ \E p \in Procs : GetUserResponses(p)
    \/ \E p \in Procs : UpdateSurveyResponseWith(p, {1}, {NumData})
    \/ \E p \in Procs : UpdateSurveyResponseExec(p)
    \/ \E p \in Procs : UpdateSurveyResponseReadback(p)

SpecWindow == InitEdit /\ [][NextWindow]_vars

\* Edits over a store that holds three responses, two of them of the
\* same survey: through either of the first two surveys, to every stored
\* response and to one that is not stored, with a payload or without.
NextFrame ==
    \/ Tick
    \/ \E p \in Procs : UpdateSurveyResponseWith(p, {1, 2}, {NoData, NumData})
    \/ \E p \in Procs : UpdateSurveyResponseExec(p)
    \/ \E p \in Procs : UpdateSurveyResponseReadback(p)

\* The store after the last of the submissions.
InitFrame ==
    /\ InitList
    /\ Len(survey_responses) = Len(ListedResponses(TRUE))

SpecFrame == InitFrame /\ [][NextFrame]_vars

\* ============================================================== properties

\* The request in slot p has been answered.
Done(p, op) == proc[p].pc = "done" /\ proc[p].op = op

\* Slot p takes up a new request of kind op in this step.
Starts(p, op) ==
    /\ proc[p].pc \in {"idle", "done"}
    /\ proc'[p] # proc[p]
    /\ proc'[p].op = op

\* Slot p moves from one handler position to another in this step.
Moves(p, op, from, to) ==
    /\ proc[p].op = op /\ proc[p].pc = from
    /\ proc'[p].op = op /\ proc'[p].pc = to

\* The stored response with the given id.
ResponseRow(rid) == survey_responses[CHOOSE i \in RowsById(rid) : TRUE]

Stored(rid) == RowsById(rid) # {}

\* The (surveyId, responseId) of the request in slot p names a stored
\* response of that survey.
Targets(r) == Stored(r.rid) /\ ResponseRow(r.rid).survey_id = r.sid

Age(rid) == now - ResponseRow(rid).created_at

\* ---------------------------------------------------------------------- C1
\* C1: an updateResponse on a response aged 24h or more is answered
\* EditWindowExpired in that very step, and the step leaves every stored
\* response (its responseData and updatedAt) as it was.
C1_ExpiredUpdateRejected ==
    [][\A p \in Procs :
         (/\ Starts(p, "updateResponse")
          /\ Targets(proc'[p])
          /\ Age(proc'[p].rid) >= EditWindow)
         => (/\ proc'[p].pc = "done"
             /\ proc'[p].status = "EditWindowExpired"
             /\ survey_responses' = survey_responses)]_vars

\* An update was refused on a response that is 24h old or older.
C1_Witness ==
    \E p \in Procs :
        /\ Done(p, "updateResponse")
        /\ proc[p].status = "EditWindowExpired"
        /\ Targets(proc[p])
        /\ Age(proc[p].rid) >= EditWindow

\* ---------------------------------------------------------------------- C2
\* C2: editable is (now - createdAt) < 24h, strictly, wherever it is
\* computed: the annotation of getResponse, of every entry of listResponses
\* and listResponsesByUser, and of updateResponse's result is TRUE exactly
\* below 24h of age, the update gate refuses exactly from 24h on, so the
\* gate refuses exactly when a read at that instant reports
\* editable = FALSE; 23h59m59s is editable and 24h is not.
C2_SamePredicateEverywhere ==
    [][\A p \in Procs :
         /\ (Starts(p, "getResponse") /\ proc'[p].status = "ok")
            => (proc'[p].out[1].editable <=> Age(proc'[p].rid) < EditWindow)
         /\ ((Starts(p, "listResponses") \/ Starts(p, "listResponsesByUser"))
             /\ proc'[p].status = "ok")
            => \A k \in 1..Len(proc'[p].out) :
                 proc'[p].out[k].editable <=> Age(proc'[p].out[k].id) < EditWindow
         /\ (Starts(p, "updateResponse") /\ Targets(proc'[p]))
            => /\ (proc'[p].status = "EditWindowExpired")
                    <=> ~(Age(proc'[p].rid) < EditWindow)
               /\ (proc'[p].status = "EditWindowExpired")
                    <=> ~Editable(ResponseRow(proc'[p].rid).created_at, now)
         /\ Moves(p, "updateResponse", "readback", "done")
            => (proc'[p].out[1].editable <=> Age(proc'[p].rid) < EditWindow)
         /\ Editable(0, EditWindow - Second)
         /\ ~Editable(0, EditWindow)]_vars

\* At the instant a response turns exactly 24h old, one request has read it
\* as not editable and another has had its update refused.
C2_Witness ==
    \E p, q \in Procs :
        /\ Done(p, "getResponse") /\ proc[p].status = "ok"
        /\ ~proc[p].out[1].editable
        /\ Age(proc[p].rid) = EditWindow
        /\ Done(q, "updateResponse") /\ proc[q].status = "EditWindowExpired"
        /\ proc[q].rid = proc[p].rid /\ proc[q].sid = proc[p].sid
        /\ Age(proc[p].rid) = EditWindow

\* A response 23h59m59s old has been read as editable.
C2_WitnessBelow ==
    \E p \in Procs :
        /\ Done(p, "getResponse") /\ proc[p].status = "ok"
        /\ proc[p].out[1].editable
        /\ Age(proc[p].rid) = EditWindow - Second

\* ---------------------------------------------------------------------- C7
\* C7: the UPDATE of an updateResponse that supplied a responseData
\* leaves that value stored in the response and the store's current time
\* in its updatedAt; and no stored response ever has updatedAt before
\* createdAt.
C7_UpdateWrites ==
    /\ [](\A i \in 1..Len(survey_responses) :
            survey_responses[i].created_at <= survey_responses[i].updated_at)
    /\ [][\A p \in Procs :
            (Moves(p, "updateResponse", "update", "readback")
             \/ (Moves(p, "updateResponse", "update", "done") /\ proc[p].data # NoData))
            => /\ proc'[p].pc = "readback"
               /\ survey_responses'[proc[p].rid].response_data = proc[p].data
               /\ survey_responses'[proc[p].rid].updated_at = CURRENT_TIMESTAMP(now)]_vars

\* An update has been answered with success, its value is the stored one,
\* differs from the submitted one, and updatedAt has moved past createdAt.
C7_Witness ==
    \E p \in Procs :
        /\ Done(p, "updateResponse") /\ proc[p].status = "ok"
        /\ ResponseRow(proc[p].rid).response_data = proc[p].data
        /\ proc[p].data # SeedResponses[1].response_data
        /\ ResponseRow(proc[p].rid).updated_at > ResponseRow(proc[p].rid).created_at

\* ---------------------------------------------------------------------- C8
\* C8 as stated: every successful updateResponse returns the responseData
\* it supplied, with editable = TRUE.
C8_ReturnsOwnData ==
    \A p \in Procs :
        (Done(p, "updateResponse") /\ proc[p].status = "ok")
        => /\ proc[p].out[1].response_data = proc[p].data
           /\ proc[p].out[1].editable

\* C8, amended: a successful updateResponse returns the response as it is
\* stored at its read-back, with editable computed at that moment; with no
\* other request interleaved and the response still under 24h old, that is
\* the responseData this call supplied and editable = TRUE.
C8_ReturnsStoredAtReadback ==
    /\ [][\A p \in Procs :
            Moves(p, "updateResponse", "readback", "done")
            => /\ proc'[p].status = "ok"
               /\ proc'[p].out[1].response_data = ResponseRow(proc[p].rid).response_data
               /\ proc'[p].out[1].editable <=> (Age(proc[p].rid) < EditWindow)]_vars
    /\ [](\A p, q \in Procs :
            (/\ Done(p, "updateResponse") /\ proc[p].status = "ok"
             /\ q # p /\ proc[q] = Fresh
             /\ Age(proc[p].rid) < EditWindow)
            => /\ proc[p].out[1].response_data = proc[p].data
               /\ proc[p].out[1].editable)

\* An update on the just-submitted response, alone, returned its own value
\* with editable = TRUE.
C8_Witness ==
    \E p, q \in Procs :
        /\ Done(p, "updateResponse") /\ proc[p].status = "ok"
        /\ q # p /\ proc[q] = Fresh
        /\ now = ResponseRow(proc[p].rid).created_at
        /\ proc[p].data # SeedResponses[1].response_data
        /\ proc[p].out[1].response_data = proc[p].data
        /\ proc[p].out[1].editable

\* ---------------------------------------------------------------------- C9
\* C9: an updateResponse that passes the edit-window gate and supplied no
\* responseData writes nothing and does not end in a store error.
C9_NoDataIsNoop ==
    [][\A p \in Procs :
         (proc[p].op = "updateResponse" /\ proc[p].pc = "update"
          /\ proc[p].data = NoData /\ proc'[p] # proc[p])
         => /\ survey_responses' = survey_responses
            /\ proc'[p].status # "StoreError"]_vars

\* --------------------------------------------------------------------- C10
\* C10: getResponse and updateResponse on a stored response id under a
\* survey the response does not belong to answer NotFound and leave the
\* store alone; and a response only ever changes under an UPDATE issued
\* through its own survey.
C10_SurveyScoped ==
    [][/\ \A p \in Procs :
            ((Starts(p, "getResponse") \/ Starts(p, "updateResponse"))
             /\ Stored(proc'[p].rid)
             /\ ResponseRow(proc'[p].rid).survey_id # proc'[p].sid)
            => /\ proc'[p].pc = "done"
               /\ proc'[p].status = "NotFound"
               /\ survey_responses' = survey_responses
               /\ surveys' = surveys
       /\ \A i \in 1..Len(survey_responses) :
            survey_responses'[i] # survey_responses[i]
            => \E p \in Procs :
                 /\ Moves(p, "updateResponse", "update", "readback")
                 /\ proc[p].rid = survey_responses[i].id
                 /\ proc[p].sid = survey_responses[i].survey_id]_vars

\* Both a read and an update of a stored response were refused as NotFound
\* because they named a survey it does not belong to.
C10_Witness ==
    \E p, q \in Procs :
        /\ Done(p, "getResponse") /\ proc[p].status = "NotFound"
        /\ Stored(proc[p].rid)
        /\ ResponseRow(proc[p].rid).survey_id # proc[p].sid
        /\ Done(q, "updateResponse") /\ proc[q].status = "NotFound"
        /\ Stored(proc[q].rid)
        /\ ResponseRow(proc[q].rid).survey_id # proc[q].sid

\* The messages of a ValidationFailed answer, as a set.
Messages(errors) == {errors[i] : i \in 1..Len(errors)}

\* ---------------------------------------------------------------------- C3
\* C3: a createResponse naming a survey that is not stored is answered
\* NotFound in its first step, whatever its userIdentifier and payload,
\* and never writes: no stored response refers to a survey that is not
\* stored.
C3_MissingSurveyNotFound ==
    /\ [][\A p \in Procs :
            (Starts(p, "createResponse") /\ ~SurveyExists(proc'[p].sid))
            => /\ proc'[p].pc = "done"
               /\ proc'[p].status = "NotFound"
               /\ survey_responses' = survey_responses]_vars
    /\ [](\A p \in Procs :
            (proc[p].op = "createResponse" /\ ~SurveyExists(proc[p].sid))
            => (proc[p].pc = "done" /\ proc[p].status = "NotFound"))
    /\ [](\A i \in 1..Len(survey_responses) :
            SurveyExists(survey_responses[i].survey_id))

\* A submission to a missing survey with a too short userIdentifier was
\* answered NotFound.
C3_Witness ==
    \E p \in Procs :
        /\ Done(p, "createResponse")
        /\ ~SurveyExists(proc[p].sid)
        /\ proc[p].uid = MinUserLen - 1
        /\ proc[p].data # NoData
        /\ proc[p].status = "NotFound"

\* ---------------------------------------------------------------------- C6
\* C6 as stated: against a stored survey, every userIdentifier shorter
\* than 3 or longer than 100 is answered ValidationFailed with the message
\* of the violated bound.
C6_BadUserIdentifierValidationFailed ==
    \A p \in Procs :
        (/\ Done(p, "createResponse")
         /\ SurveyExists(proc[p].sid)
         /\ proc[p].data # NoData
         /\ (proc[p].uid < MinUserLen \/ proc[p].uid > MaxUserLen))
        => /\ proc[p].status = "ValidationFailed"
           /\ proc[p].uid < MinUserLen
              => "User identifier must be at least 3 characters long"
                    \in Messages(proc[p].errors)
           /\ proc[p].uid > MaxUserLen
              => "User identifier must be less than 100 characters"
                    \in Messages(proc[p].errors)

\* C6, amended: against a stored survey and with a payload present, a
\* userIdentifier of length 1 or 2, or above 100, is answered
\* ValidationFailed with the message of the violated bound; an empty one
\* is refused by the bind as a structural-parse failure; one of length
\* 3..100 is not refused; and no refused submission writes a row.
C6_UserIdentifierBounds ==
    /\ [](\A p \in Procs :
            (/\ proc[p].op = "createResponse"
             /\ SurveyExists(proc[p].sid)
             /\ proc[p].data # NoData)
            => /\ proc[p].uid \in 1..(MinUserLen - 1)
                  => /\ proc[p].pc = "done"
                     /\ proc[p].status = "ValidationFailed"
                     /\ proc[p].errors =
                          <<"User identifier must be at least 3 characters long">>
               /\ proc[p].uid > MaxUserLen
                  => /\ proc[p].pc = "done"
                     /\ proc[p].status = "ValidationFailed"
                     /\ proc[p].errors =
                          <<"User identifier must be less than 100 characters">>
               /\ proc[p].uid = 0
                  => /\ proc[p].pc = "done"
                     /\ proc[p].status = "StructuralParseFailure"
               /\ proc[p].uid \in MinUserLen..MaxUserLen
                  => \/ proc[p].pc \in {"insert", "readback"}
                     \/ proc[p].status = "ok")
    /\ [](\A i \in 1..Len(survey_responses) :
            survey_responses[i].user_identifier \in MinUserLen..MaxUserLen)
    /\ [][\A p \in Procs :
            (Starts(p, "createResponse") /\ proc'[p].pc = "done")
            => survey_responses' = survey_responses]_vars

\* Against a stored survey: a two-character userIdentifier was answered
\* ValidationFailed, and a 100-character one got through and was stored.
C6_Witness ==
    \E p, q \in Procs :
        /\ Done(p, "createResponse")
        /\ SurveyExists(proc[p].sid)
        /\ proc[p].uid = MinUserLen - 1 /\ proc[p].data # NoData
        /\ proc[p].status = "ValidationFailed"
        /\ Done(q, "createResponse")
        /\ proc[q].uid = MaxUserLen
        /\ proc[q].status = "ok"

\* ---------------------------------------------------------------------- C4
\* The title and description of the request in slot p pass createSurvey's
\* length checks.
InBounds(r) ==
    /\ r.title \in MinTitleLen..MaxTitleLen
    /\ r.desc \in 0..MaxDescLen

\* C4 as stated: every createSurvey with a title of 3..255 and a
\* description of 0..1000 characters succeeds and returns responsesCount 0.
C4_InBoundsSucceeds ==
    \A p \in Procs :
        (Done(p, "createSurvey") /\ InBounds(proc[p]))
        => /\ proc[p].status = "ok"
           /\ proc[p].out[1].responses_count = 0

\* C4, amended: every createSurvey with a title of 3..255 and a
\* description of 1..1000 characters adds exactly one survey row, holding
\* that title and description, and answers with that row and
\* responsesCount = 0; an empty description is refused by the bind.
C4_NonEmptyInBoundsSucceeds ==
    /\ [](\A p \in Procs :
            (Done(p, "createSurvey") /\ InBounds(proc[p]) /\ proc[p].desc # 0)
            => /\ proc[p].status = "ok"
               /\ proc[p].out[1].responses_count = 0
               /\ proc[p].out[1].title = proc[p].title
               /\ proc[p].out[1].description = proc[p].desc
               /\ proc[p].out[1].id \in 1..Len(surveys)
               /\ surveys[proc[p].out[1].id].title = proc[p].title
               /\ surveys[proc[p].out[1].id].description = proc[p].desc
               /\ surveys[proc[p].out[1].id].created_at = proc[p].out[1].created_at)
    /\ [](\A p \in Procs :
            (Done(p, "createSurvey") /\ proc[p].desc = 0)
            => proc[p].status = "StructuralParseFailure")
    /\ [][\A p \in Procs :
            (Starts(p, "createSurvey") /\ InBounds(proc'[p]) /\ proc'[p].desc # 0)
            => /\ proc'[p].pc = "readback"
               /\ Len(surveys') = Len(surveys) + 1
               /\ SubSeq(surveys', 1, Len(surveys)) = surveys
               /\ surveys'[Len(surveys')].title = proc'[p].title
               /\ surveys'[Len(surveys')].description = proc'[p].desc]_vars

\* A survey with a 255-character title and a 1000-character description
\* was created and returned.
C4_Witness ==
    \E p \in Procs :
        /\ Done(p, "createSurvey")
        /\ proc[p].title = MaxTitleLen /\ proc[p].desc = MaxDescLen
        /\ proc[p].status = "ok"
        /\ proc[p].out[1].responses_count = 0

\* ---------------------------------------------------------------------- C5
\* The messages createSurvey owes for a title and a description.
TitleTooShort(r) == r.title < MinTitleLen
TitleTooLong(r)  == r.title > MaxTitleLen
DescTooLong(r)   == r.desc > MaxDescLen

AllMessagesPresent(r) ==
    /\ TitleTooShort(r)
       => "Title must be at least 3 characters long" \in Messages(r.errors)
    /\ TitleTooLong(r)
       => "Title must be less than 255 characters" \in Messages(r.errors)
    /\ DescTooLong(r)
       => "Description must be less than 1000 characters" \in Messages(r.errors)

OutIds(out) == {out[k].id : k \in 1..Len(out)}

OutOnce(out) == \A j, k \in 1..Len(out) : j # k => out[j].id # out[k].id

\* C11: listSurveys returns every stored survey exactly once, with the
\* stored title, description and timestamps, surveys without responses
\* included with count 0, in descending order of createdAt, and each
\* responsesCount is the number of stored responses whose surveyId is that
\* survey's id when the list is read.
C11_ListsEverySurveyWithCount ==
    [][\A p \in Procs :
         Starts(p, "listSurveys")
         => /\ proc'[p].pc = "done" /\ proc'[p].status = "ok"
            /\ OutIds(proc'[p].out) = {surveys[i].id : i \in 1..Len(surveys)}
            /\ OutOnce(proc'[p].out)
            /\ \A j, k \in 1..Len(proc'[p].out) :
                 j < k => proc'[p].out[j].created_at >= proc'[p].out[k].created_at
            /\ \A k \in 1..Len(proc'[p].out) :
                 \E i \in 1..Len(surveys) :
                   /\ surveys[i].id = proc'[p].out[k].id
                   /\ surveys[i].title = proc'[p].out[k].title
                   /\ surveys[i].description = proc'[p].out[k].description
                   /\ surveys[i].created_at = proc'[p].out[k].created_at
                   /\ proc'[p].out[k].responses_count =
                        Cardinality({n \in 1..Len(survey_responses) :
                            survey_responses[n].survey_id = surveys[i].id})]_vars

\* A list was returned that starts with a survey created later than the
\* one it ends with, and holds a survey with two responses and one with
\* none while responses are stored.
C11_Witness ==
    \E p \in Procs :
        /\ Done(p, "listSurveys") /\ proc[p].status = "ok"
        /\ Len(proc[p].out) = Len(surveys)
        /\ proc[p].out[1].created_at > proc[p].out[Len(proc[p].out)].created_at
        /\ \E k \in 1..Len(proc[p].out) : proc[p].out[k].responses_count = 2
        /\ \E k \in 1..Len(proc[p].out) : proc[p].out[k].responses_count = 0
        /\ Len(survey_responses) = 2

\* --------------------------------------------------------------------- C12
\* C12: getSurvey answers NotFound exactly when no stored survey has the
\* id, and otherwise returns that survey with responsesCount equal to the
\* number of stored responses for it when it is read, 0 when it has none.
C12_GetSurveyOrNotFound ==
    [][\A p \in Procs :
         Starts(p, "getSurvey")
         => /\ proc'[p].pc = "done"
            /\ (\A i \in 1..Len(surveys) : surveys[i].id # proc'[p].sid)
               => proc'[p].status = "NotFound"
            /\ \A i \in 1..Len(surveys) :
                 surveys[i].id = proc'[p].sid
                 => /\ proc'[p].status = "ok"
                    /\ proc'[p].out[1].id = proc'[p].sid
                    /\ proc'[p].out[1].title = surveys[i].title
                    /\ proc'[p].out[1].description = surveys[i].description
                    /\ proc'[p].out[1].responses_count =
                         Cardinality({n \in 1..Len(survey_responses) :
                             survey_responses[n].survey_id = proc'[p].sid})]_vars

\* One request was answered NotFound for an id no survey has, another got
\* a stored survey without responses back with count 0, while another
\* survey has responses.
C12_Witness ==
    \E p, q \in Procs :
        /\ Done(p, "getSurvey") /\ proc[p].status = "NotFound"
        /\ ~SurveyExists(proc[p].sid)
        /\ Done(q, "getSurvey") /\ proc[q].status = "ok"
        /\ proc[q].out[1].responses_count = 0
        /\ Len(survey_responses) > 0

\* A stored survey with two responses was returned with count 2.
C12_WitnessCounted ==
    \E p \in Procs :
        /\ Done(p, "getSurvey") /\ proc[p].status = "ok"
        /\ proc[p].out[1].responses_count = 2

\* --------------------------------------------------------------------- C13
\* C13: listResponses answers NotFound when the survey is not stored, and
\* otherwise returns exactly the stored responses of that survey, each
\* once and as stored, in descending order of updatedAt, each with
\* editable set to whether it is less than 24h old when the list is read.
C13_ListsResponsesOfSurvey ==
    [][\A p \in Procs :
         Starts(p, "listResponses")
         => /\ proc'[p].pc = "done"
            /\ ~SurveyExists(proc'[p].sid) => proc'[p].status = "NotFound"
            /\ SurveyExists(proc'[p].sid)
               => /\ proc'[p].status = "ok"
                  /\ OutIds(proc'[p].out) =
                       {survey_responses[n].id : n \in
                          {m \in 1..Len(survey_responses) :
                             survey_responses[m].survey_id = proc'[p].sid}}
                  /\ OutOnce(proc'[p].out)
                  /\ \A j, k \in 1..Len(proc'[p].out) :
                       j < k => proc'[p].out[j].updated_at >= proc'[p].out[k].updated_at
                  /\ \A k \in 1..Len(proc'[p].out) :
                       /\ proc'[p].out[k] =
                            Annotated(ResponseRow(proc'[p].out[k].id),
                                      proc'[p].out[k].editable)
                       /\ proc'[p].out[k].editable
                            <=> (now - proc'[p].out[k].created_at < EditWindow)]_vars

\* With a response of another survey stored, the two responses of a survey
\* were listed with the later-edited, younger id first; and a list of a
\* survey that is not stored was refused.
C13_Witness ==
    \E p, q \in Procs :
        /\ Done(p, "listResponses") /\ proc[p].status = "ok"
        /\ Len(proc[p].out) = 2
        /\ proc[p].out[1].id > proc[p].out[2].id
        /\ proc[p].out[1].updated_at > proc[p].out[2].updated_at
        /\ Len(survey_responses) = 3
        /\ Done(q, "listResponses") /\ proc[q].status = "NotFound"

\* --------------------------------------------------------------------- C14
\* C14: listResponsesByUser returns exactly the stored responses whose
\* userIdentifier is the given one, from whatever survey, each once and as
\* stored, in descending order of updatedAt, and each entry's embedded
\* survey has the id, title and description of the survey the response's
\* surveyId names.
C14_ListsResponsesOfUser ==
    [][\A p \in Procs :
         Starts(p, "listResponsesByUser")
         => /\ proc'[p].pc = "done" /\ proc'[p].status = "ok"
            /\ OutIds(proc'[p].out) =
                 {survey_responses[n].id : n \in
                    {m \in 1..Len(survey_responses) :
                       survey_responses[m].user_identifier = proc'[p].uid}}
            /\ OutOnce(proc'[p].out)
            /\ \A j, k \in 1..Len(proc'[p].out) :
                 j < k => proc'[p].out[j].updated_at >= proc'[p].out[k].updated_at
            /\ \A k \in 1..Len(proc'[p].out) :
                 LET row == ResponseRow(proc'[p].out[k].id)
                 IN  /\ proc'[p].out[k].user_identifier = proc'[p].uid
                     /\ proc'[p].out[k].response_data = row.response_data
                     /\ proc'[p].out[k].updated_at = row.updated_at
                     /\ proc'[p].out[k].survey.id = row.survey_id
                     /\ \E i \in 1..Len(surveys) :
                          /\ surveys[i].id = row.survey_id
                          /\ surveys[i].title = proc'[p].out[k].survey.title
                          /\ surveys[i].description =
                               proc'[p].out[k].survey.description]_vars

\* A user's two responses, to two different surveys, were listed with the
\* later one first, while another user's response is stored.
C14_Witness ==
    \E p \in Procs :
        /\ Done(p, "listResponsesByUser") /\ proc[p].status = "ok"
        /\ Len(proc[p].out) = 2
        /\ proc[p].out[1].survey.id # proc[p].out[2].survey.id
        /\ proc[p].out[1].survey.title # proc[p].out[2].survey.title
        /\ proc[p].out[1].updated_at > proc[p].out[2].updated_at
        /\ Len(survey_responses) = 3

C15_FlagAgreesAtReturn ==
    [][\A p \in Procs :
         (Moves(p, "createResponse", "readback", "done") /\ proc'[p].status = "ok")
         => /\ proc'[p].out[1].editable
            /\ proc'[p].out[1].editable
                 <=> (now - proc'[p].out[1].created_at < EditWindow)]_vars

\* C15, amended: the INSERT of a createResponse adds exactly one row, with
\* the request's survey, userIdentifier and payload and with createdAt =
\* updatedAt = the store's current time, and no other step of the request
\* writes; the request then returns that row with editable = TRUE, set
\* outright, which agrees with the 24h policy whenever the row is less
\* than 24h old at the return.
C15_InsertsOneRowReturnsEditable ==
    /\ [][\A p \in Procs :
            Moves(p, "createResponse", "insert", "readback")
            => /\ Len(survey_responses') = Len(survey_responses) + 1
               /\ SubSeq(survey_responses', 1, Len(survey_responses)) = survey_responses
               /\ LET row == survey_responses'[Len(survey_responses')]
                  IN  /\ row.created_at = CURRENT_TIMESTAMP(now)
                      /\ row.updated_at = CURRENT_TIMESTAMP(now)
                      /\ row.survey_id = proc[p].sid
                      /\ row.user_identifier = proc[p].uid
                      /\ row.response_data = proc[p].data
                      /\ row.id = proc'[p].newId
                      /\ \A i \in 1..Len(survey_responses) :
                           survey_responses[i].id # row.id]_vars
    /\ [][\A p \in Procs :
            (Starts(p, "createResponse")
             \/ Moves(p, "createResponse", "readback", "done"))
            => survey_responses' = survey_responses]_vars
    /\ [][\A p \in Procs :
            Moves(p, "createResponse", "readback", "done")
            => /\ proc'[p].status = "ok"
               /\ proc'[p].out = <<Annotated(ResponseRow(proc[p].newId), TRUE)>>
               /\ (now - proc'[p].out[1].created_at < EditWindow)
                  => (proc'[p].out[1].editable
                        <=> (now - proc'[p].out[1].created_at < EditWindow))]_vars

\* A submission made one tick into a second was answered with its stored
\* row, stamped with the start of that second, and editable = TRUE, the
\* row being less than 24h old.
C15_Witness ==
    \E p \in Procs :
        /\ Done(p, "createResponse") /\ proc[p].status = "ok"
        /\ proc[p].out[1].editable
        /\ Stored(proc[p].out[1].id)
        /\ ResponseRow(proc[p].out[1].id).created_at = proc[p].out[1].created_at
        /\ proc[p].out[1].created_at = proc[p].out[1].updated_at
        /\ now = 1
        /\ proc[p].out[1].created_at = 0

\* --------------------------------------------------------------------- C19
\* Slot q holds an update of the same response as slot p that has passed
\* the edit-window check and has not returned yet.
Overlaps(p, q) ==
    /\ q # p
    /\ proc[q].op = "updateResponse" /\ proc[q].pc \in {"update", "readback"}
    /\ proc[q].rid = proc[p].rid /\ proc[q].sid = proc[p].sid
    /\ proc[q].data # NoData

\* C19: of two updateResponse calls on the same response that are in
\* flight together, both past the edit-window check and each with a
\* payload, each UPDATE leaves its own value stored, so the stored
\* responseData is that of the UPDATE executed last; both calls succeed;
\* and once both have written the stored value is one of the two
\* supplied, never anything else.
C19_LastWriteWins ==
    /\ [][\A p, q \in Procs :
            (/\ Overlaps(p, q)
             /\ proc[p].op = "updateResponse" /\ proc[p].pc = "update"
             /\ proc[p].data # NoData
             /\ proc'[p] # proc[p])
            => /\ proc'[p].pc = "readback"
               /\ ResponseRow(proc[p].rid)'.response_data = proc[p].data]_vars
    /\ [][\A p, q \in Procs :
            (Overlaps(p, q) /\ Moves(p, "updateResponse", "readback", "done"))
            => proc'[p].status = "ok"]_vars
    /\ [](\A p, q \in Procs :
            (Overlaps(p, q) /\ proc[p].pc = "readback" /\ proc[q].pc = "readback")
            => ResponseRow(proc[p].rid).response_data \in {proc[p].data, proc[q].data})

\* Two updates of one response with different payloads have both
\* succeeded; the one that wrote first read the other's value back, and
\* that value is the stored one.
C19_Witness ==
    \E p, q \in Procs :
        /\ p # q
        /\ Done(p, "updateResponse") /\ proc[p].status = "ok"
        /\ Done(q, "updateResponse") /\ proc[q].status = "ok"
        /\ proc[p].rid = proc[q].rid
        /\ proc[p].data # proc[q].data
        /\ proc[p].out[1].response_data = proc[q].data
        /\ proc[q].out[1].response_data = proc[q].data
        /\ ResponseRow(proc[p].rid).response_data = proc[q].data
        /\ proc[q].data # SeedResponses[1].response_data

\* --------------------------------------------------------------------- C17
\* C17: no operation partially commits.  A createSurvey or createResponse
\* that returned a failure left no row of its own in the store; an
\* updateResponse whose UPDATE has been applied does not return a
\* failure; and one that returned success left its row stored.
C17_NoPartialCommit ==
    /\ [](\A p \in Procs :
            (Done(p, "createSurvey") /\ proc[p].status # "ok")
            => SurveyRowsById(proc[p].newId) = {})
    /\ [](\A p \in Procs :
            (Done(p, "createResponse") /\ proc[p].status # "ok")
            => RowsById(proc[p].newId) = {})
    /\ [][\A p \in Procs :
            Moves(p, "updateResponse", "readback", "done")
            => proc'[p].status = "ok"]_vars
    /\ [](\A p \in Procs :
            (Done(p, "createSurvey") /\ proc[p].status = "ok")
            => SurveyRowsById(proc[p].out[1].id) # {})
    /\ [](\A p \in Procs :
            (Done(p, "createResponse") /\ proc[p].status = "ok")
            => RowsById(proc[p].out[1].id) # {})

\* --------------------------------------------------------------------- C18
\* C18: a request one of whose store calls returned an error is answered
\* StoreError, never NotFound, ValidationFailed or success.
C18_StoreFailureIsStoreError ==
    \A p \in Procs :
        (proc[p].pc = "done" /\ proc[p].err) => proc[p].status = "StoreError"

\* --------------------------------------------------------------------- C20
\* C20: whenever a response row is inserted, by a createResponse or by the
\* seeding program, its surveyId is the id of a survey stored at that
\* moment.
C20_SurveyStoredAtInsert ==
    [][\A i \in 1..Len(survey_responses') :
         (\A j \in 1..Len(survey_responses) :
             survey_responses[j].id # survey_responses'[i].id)
         => \E k \in 1..Len(surveys) :
              surveys[k].id = survey_responses'[i].survey_id]_vars

\* ------------------------------------------------------------------- C21

\* The body of a finished request did not bind: a required field is absent
\* or the body is not well-formed.
BadBody(r) ==
    \/ r.op = "createSurvey"   /\ ~BindSurvey(r.title, r.desc)
    \/ r.op = "createResponse" /\ ~BindCreateResponse(r.uid, r.data)
    \/ r.op = "updateResponse" /\ ~BindUpdateResponse(r.data)

\* C21: a createSurvey, createResponse or updateResponse whose payload is
\* malformed or lacks a required field is answered StructuralParseFailure,
\* whatever the store holds (whether the survey exists, whether the
\* response exists, how old the response is).
C21_BadBodyIsParseFailure ==
    \A p \in Procs :
        (proc[p].pc = "done" /\ BadBody(proc[p]))
            => proc[p].status = "StructuralParseFailure"

\* ------------------------------------------------------------------- C22

\* Slot p takes a step of an updateResponse: it starts one or moves one on.
UpdateStep(p) ==
    /\ proc'[p] # proc[p]
    /\ proc'[p].op = "updateResponse"

\* C22: a step of an updateResponse, whether the call ends in success or in
\* failure, leaves every survey row as it was, adds and removes no response
\* row, leaves id, surveyId, userIdentifier and createdAt of every response
\* as they were, and leaves every response other than the one identified by
\* (surveyId, responseId) wholly unchanged.
C22_UpdateFrame ==
    [][\A p \in Procs :
        UpdateStep(p)
        => /\ surveys' = surveys
           /\ sqlite_sequence' = sqlite_sequence
           /\ Len(survey_responses') = Len(survey_responses)
           /\ \A i \in 1..Len(survey_responses) :
                LET a == survey_responses[i]
                    b == survey_responses'[i]
                IN  /\ b.id = a.id
                    /\ b.survey_id = a.survey_id
                    /\ b.user_identifier = a.user_identifier
                    /\ b.created_at = a.created_at
                    /\ (a.id # proc'[p].rid \/ a.survey_id # proc'[p].sid)
                         => b = a]_vars

\* An update has rewritten one of two responses of the same survey, a
\* second after both were stored, and been answered.
C22_Witness ==
    \E p \in Procs : \E i, j \in 1..Len(survey_responses) :
        /\ Done(p, "updateResponse") /\ proc[p].status = "ok"
        /\ i # j
        /\ survey_responses[i].survey_id = survey_responses[j].survey_id
        /\ survey_responses[i].id = proc[p].rid
        /\ survey_responses[i].response_data = proc[p].data
        /\ survey_responses[i].updated_at > survey_responses[i].created_at
        /\ survey_responses[j].response_data # proc[p].data

\* ------------------------------------------------------------------- C23

\* C23: whenever the UPDATE of an updateResponse writes a response's
\* responseData, the response is less than 24h old at that instant, however
\* the clock advanced since the handler's edit-window check.
C23_WriteInsideWindow ==
    [][\A p \in Procs :
        (/\ Moves(p, "updateResponse", "update", "readback")
         /\ survey_responses' # survey_responses)
        => Age(proc[p].rid) < EditWindow]_vars

\* ------------------------------------------------------------------- C24

\* In this step slot p is answered with response rid carrying the flag e:
\* by getResponse, by a list that holds it, or as the result of an update.
ReportsEditable(p, rid, e) ==
    /\ proc'[p] # proc[p]
    /\ proc'[p].pc = "done" /\ proc'[p].status = "ok"
    /\ proc'[p].op \in {"getResponse", "listResponses",
                        "listResponsesByUser", "updateResponse"}
    /\ \E k \in 1..Len(proc'[p].out) :
         proc'[p].out[k].id = rid /\ proc'[p].out[k].editable = e

\* In this step an updateResponse on stored response rid, named through its
\* own survey, is taken up by slot p and refused for the window.
RefusesUpdate(p, rid) ==
    /\ Starts(p, "updateResponse")
    /\ proc'[p].rid = rid /\ Targets(proc'[p])
    /\ proc'[p].status = "EditWindowExpired"

\* In this step such an updateResponse is taken up and not refused for the
\* window.
AdmitsUpdate(p, rid) ==
    /\ Starts(p, "updateResponse")
    /\ proc'[p].rid = rid /\ Targets(proc'[p])
    /\ proc'[p].status # "EditWindowExpired"

\* C24: editability never comes back.  A read that reports editable = false
\* for a response, and an updateResponse on it refused with
\* EditWindowExpired, happen only when the response is 24h old or older; a
\* response that old stays stored and that old through every step, an edit
\* included, since no step changes createdAt; and from then on no read
\* reports editable = true for it and every updateResponse on it is refused
\* with EditWindowExpired.
C24_EditabilityMonotone ==
    /\ [][\A p \in Procs : \A rid \in ResponseIds :
            (ReportsEditable(p, rid, FALSE) \/ RefusesUpdate(p, rid))
            => (Stored(rid) /\ Age(rid) >= EditWindow)]_vars
    /\ [][\A rid \in ResponseIds :
            (Stored(rid) /\ Age(rid) >= EditWindow)
            => (Stored(rid)' /\ Age(rid)' >= EditWindow)]_vars
    /\ [][\A p \in Procs : \A rid \in ResponseIds :
            (Stored(rid) /\ Age(rid) >= EditWindow)
            => (~ReportsEditable(p, rid, TRUE) /\ ~AdmitsUpdate(p, rid))]_vars

\* A response that was edited inside its window has since been read as not
\* editable, and an update of it has been refused.
C24_Witness ==
    \E p, q \in Procs :
        /\ Done(p, "getResponse") /\ proc[p].status = "ok"
        /\ ~proc[p].out[1].editable
        /\ proc[p].out[1].updated_at > proc[p].out[1].created_at
        /\ Done(q, "updateResponse") /\ proc[q].status = "EditWindowExpired"
        /\ proc[q].rid = proc[p].rid /\ Targets(proc[q])

\* ------------------------------------------------------------------- C25

\* C25: a survey's responsesCount, the number the reads report for it,
\* changes only in the INSERT of a createResponse on that survey, and then
\* by exactly 1; every other step (of a createResponse on another survey,
\* of an updateResponse, of a createSurvey, of a read) leaves it as it was;
\* and a createResponse whose INSERT was applied is answered with success,
\* so a failed createResponse has not changed any count.
C25_CountFollowsSuccess ==
    /\ [][\A sid \in SurveyIds :
            \/ ResponsesCount(sid)' = ResponsesCount(sid)
            \/ /\ ResponsesCount(sid)' = ResponsesCount(sid) + 1
               /\ \E p \in Procs :
                    /\ Moves(p, "createResponse", "insert", "readback")
                    /\ proc[p].sid = sid]_vars
    /\ [][\A p \in Procs :
            Moves(p, "createResponse", "insert", "readback")
            => ResponsesCount(proc[p].sid)' = ResponsesCount(proc[p].sid) + 1]_vars
    /\ [][\A p \in Procs :
            Moves(p, "createResponse", "readback", "done")
            => proc'[p].status = "ok"]_vars

====
